---- MODULE Spec2Model ----
(***************************************************************************)
(* The asynchronous conversion job subsystem of the backend: the JOBS      *)
(* registry, the POST /api/convert/start handler with its downloader and   *)
(* ffmpeg child processes, the expiry timer, GET /api/convert/download and *)
(* GET /api/progress.                                                      *)
(*                                                                         *)
(* The repository holds two versions of the server: src/server.js and      *)
(* src/unnamed/part_000.  They differ, for this subsystem, in where the    *)
(* expiry timer is armed and in the ffmpeg 'error' listener.  The variable *)
(* variant says which file the process runs: "backend" is src/server.js,   *)
(* "root" is src/unnamed/part_000.                                         *)
(*                                                                         *)
(* Node runs every callback to completion on one thread, so each handler   *)
(* is one atomic action.  What the child processes, the file system's      *)
(* thread pool and the timers do in between is nondeterministic.  An       *)
(* exception thrown inside an event callback is uncaught and ends the      *)
(* process (alive = FALSE); the model follows the run no further.  A       *)
(* thread-pool fs.unlink takes effect between callbacks, never between the *)
(* existsSync and the unlinkSync of the timer callback.                    *)
(***************************************************************************)
EXTENDS Integers, Sequences, FiniteSets, TLC

\* The conversion requests of one run, in the order they arrive; request j,
\* when accepted, owns job id j (uuidv4 never repeats an id).  Jobs share
\* nothing but the process, so two show every interference there is.
JobIds == {1, 2}
\* Delivery requests that open a read stream, per job.
MaxStreams == 2

VARIABLES
  variant,   \* which file runs: "backend" (src/server.js) or "root" (part_000)
  alive,     \* the server process has not died of an uncaught exception
  JOBS,      \* the registry (server.js 28): job id -> NoJob or [progress, done];
             \* path, ext and name never change and are left out
  timer,     \* job id -> "none" | "armed" | "fired": the setTimeout (133)
  stage,     \* job id -> how far POST /api/convert/start (108-178) has got
  resp,      \* job id -> what the POST request was answered
  fp,        \* job id -> the ffmpeg child process (147), as the OS sees it
  pipe,      \* job id -> ffmpeg's stderr pipe (153): "none" | "open" | "closed"
  inp,       \* job id -> tempInput (127) exists on disk
  out,       \* job id -> outFile (128) on disk: "absent" | "partial" | "complete"
  pend,      \* job id -> asynchronous fs.unlink calls (170, 199) not yet carried out
  streams,   \* job id -> read streams of outFile (192) now open
  started    \* job id -> read streams of outFile ever opened

vars == <<variant, alive, JOBS, timer, stage, resp, fp, pipe, inp, out, pend,
          streams, started>>

----------------------------------------------------------------------------
\* JavaScript numbers as far as the handlers use them: an integer or NaN.

Num(n) == [k |-> "num", v |-> n]
NaN == [k |-> "nan", v |-> 0]

\* Math.min(100, x): NaN if x is NaN.
MathMin100(x) == IF x.k = "nan" THEN NaN ELSE Num(IF x.v < 100 THEN x.v ELSE 100)

\* x >= 100: false for NaN.
GE100(x) == x.k = "num" /\ x.v >= 100

\* Math.round((ms / 60000) * 100) for an integer ms.  (ms / 60000) * 100 is
\* ms / 600, and Math.round rounds a half up: floor(ms / 600 + 1/2).
RoundPercent(ms) == IF ms.k = "nan" THEN NaN
                    ELSE Num((ms.v + 300) \div 600)

\* Text is a sequence of one-character strings.
Digits == <<"0", "1", "2", "3", "4", "5", "6", "7", "8", "9">>
IsDigit(c) == \E i \in 1..10 : Digits[i] = c
DigitVal(c) == (CHOOSE i \in 1..10 : Digits[i] = c) - 1

RECURSIVE ParseDigits(_, _, _)
\* The value of the leading digits of text from position i on; acc is the
\* value so far, -1 while no digit was read.
ParseDigits(text, i, acc) ==
  IF i > Len(text) \/ ~IsDigit(text[i]) THEN acc
  ELSE ParseDigits(text, i + 1, (IF acc < 0 THEN 0 ELSE acc) * 10 + DigitVal(text[i]))

\* parseInt(text): an optional sign, then the leading decimal digits; NaN
\* when there is none.
ParseInt(text) ==
  LET signed == Len(text) > 0 /\ text[1] \in {"-", "+"}
      mag == ParseDigits(text, IF signed THEN 2 ELSE 1, -1)
  IN  IF mag < 0 THEN NaN
      ELSE Num(IF signed /\ text[1] = "-" THEN 0 - mag ELSE mag)

----------------------------------------------------------------------------
\* Format validation of POST /api/convert/start.

VALID_AUDIO_FORMATS == {"mp3", "aac", "m4a", "opus", "wav", "flac"}
VALID_VIDEO_FORMATS == {"mp4", "mkv", "webm"}

formatAliases == [f \in {"360p", "480p", "720p", "1080p"} |-> "mp4"]

\* formatAliases[inputFormat] || inputFormat
ResolveAlias(inputFormat) ==
  IF inputFormat \in DOMAIN formatAliases THEN formatAliases[inputFormat]
  ELSE inputFormat

FormatListAny(type) == VALID_AUDIO_FORMATS \cup VALID_VIDEO_FORMATS

\* type === 'audio' ? VALID_AUDIO_FORMATS : VALID_VIDEO_FORMATS
FormatList(type) ==
  IF type = "audio" THEN VALID_AUDIO_FORMATS ELSE VALID_VIDEO_FORMATS

\* The request bodies tried: every format of either list, every alias, and
\* some that are in neither; the two types and one that is neither.
InputFormats == VALID_AUDIO_FORMATS \cup VALID_VIDEO_FORMATS
                \cup DOMAIN formatAliases \cup {"avi", "gif", ""}
InputTypes == {"audio", "video", "other"}

----------------------------------------------------------------------------
\* ffmpeg's progress channel: lines key=val.

Line(key, val) == [key |-> key, val |-> val]

LineHalf == Line("out_time_ms", <<"3", "0", "0", "0", "0">>)
LineLong == Line("out_time_ms", <<"3", "0", "0", "0", "0", "0", "0", "0">>)
LineNA   == Line("out_time_ms", <<"N", "/", "A">>)
LineNeg  == Line("out_time_ms", <<"-", "3", "0", "0", "0", "0">>)
LineCont == Line("progress", <<"c", "o", "n", "t", "i", "n", "u", "e">>)
LineEnd  == Line("progress", <<"e", "n", "d">>)

\* line.startsWith('out_time_ms=')
IsOutTime(line) == line.key = "out_time_ms"
\* line.startsWith('progress=end')
IsEnd(line) == line.key = "progress" /\ Len(line.val) >= 3
               /\ SubSeq(line.val, 1, 3) = <<"e", "n", "d">>

\* The chunks tried.  ffmpeg writes progress=end as its last line, so it
\* ends a chunk.
Chunks == {<<LineHalf>>, <<LineLong>>, <<LineNA>>, <<LineNeg>>, <<LineCont>>,
           <<LineEnd>>, <<LineCont, LineHalf>>, <<LineLong, LineEnd>>}

HasEnd(chunk) == \E i \in 1..Len(chunk) : IsEnd(chunk[i])
Dereferences(chunk) == \E i \in 1..Len(chunk) : IsOutTime(chunk[i]) \/ IsEnd(chunk[i])

EstimateNoClamp(line) == RoundPercent(ParseInt(line.val))

EstimateRatio(line) ==
  LET ms == ParseInt(line.val)
  IN  MathMin100(IF ms.k = "nan" THEN NaN ELSE Num((ms.v + 30000) \div 60000))

\* Math.min(100, Math.round((parseInt(line.split('=')[1]) / 60000) * 100))
Estimate(line) == MathMin100(RoundPercent(ParseInt(line.val)))

\* The body of lines.forEach for one line, on the job's entry.
ApplyLine(job, line) ==
  LET j1 == IF IsOutTime(line) THEN [job EXCEPT !.progress = Estimate(line)] ELSE job
  IN  IF IsEnd(line) THEN [j1 EXCEPT !.progress = Num(100), !.done = TRUE] ELSE j1

RECURSIVE ApplyLines(_, _, _)
ApplyLines(job, chunk, i) ==
  IF i > Len(chunk) THEN job
  ELSE ApplyLines(ApplyLine(job, chunk[i]), chunk, i + 1)

----------------------------------------------------------------------------
\* JOBS[id] of an id the registry does not hold (undefined).
NoJob == [absent |-> TRUE]
NewJob == [progress |-> Num(0), done |-> FALSE]

Init ==
  /\ variant \in {"backend", "root"}
  /\ alive = TRUE
  /\ JOBS = [j \in JobIds |-> NoJob]
  /\ timer = [j \in JobIds |-> "none"]
  /\ stage = [j \in JobIds |-> "idle"]
  /\ resp = [j \in JobIds |-> "none"]
  /\ fp = [j \in JobIds |-> "none"]
  /\ pipe = [j \in JobIds |-> "none"]
  /\ inp = [j \in JobIds |-> FALSE]
  /\ out = [j \in JobIds |-> "absent"]
  /\ pend = [j \in JobIds |-> {}]
  /\ streams = [j \in JobIds |-> 0]
  /\ started = [j \in JobIds |-> 0]

----------------------------------------------------------------------------
\* POST /api/convert/start, up to the await: validation, the registry entry
\* and, in src/server.js, the expiry timer.  Requests are numbered in the
\* order they arrive.
ConvertStart(j, inputFormat, type) ==
  /\ alive
  /\ stage[j] = "idle"
  /\ \A i \in JobIds : i < j => stage[i] # "idle"
  /\ IF ResolveAlias(inputFormat) \notin FormatList(type)
     THEN /\ stage' = [stage EXCEPT ![j] = "rejected"]
          /\ resp' = [resp EXCEPT ![j] = "400"]
          /\ UNCHANGED <<JOBS, timer>>
     ELSE /\ JOBS' = [JOBS EXCEPT ![j] = NewJob]
          /\ timer' = [timer EXCEPT ![j] = IF variant = "backend" THEN "armed" ELSE @]
          /\ stage' = [stage EXCEPT ![j] = "fetching"]
          /\ UNCHANGED resp
  /\ UNCHANGED <<variant, alive, fp, pipe, inp, out, pend, streams, started>>

\* The downloader writes the file at tempInput.
DownloaderWrite(j) ==
  /\ alive
  /\ stage[j] = "fetching"
  /\ stage' = [stage EXCEPT ![j] = "fetched"]
  /\ inp' = [inp EXCEPT ![j] = TRUE]
  /\ UNCHANGED <<variant, alive, JOBS, timer, resp, fp, pipe, out, pend, streams, started>>

\* The downloader fails (before or after it wrote the file): the await
\* throws and the catch block answers 500.
FetchFail(j) ==
  /\ alive
  /\ stage[j] \in {"fetching", "fetched"}
  /\ stage' = [stage EXCEPT ![j] = "fetchFailed"]
  /\ resp' = [resp EXCEPT ![j] = "500"]
  /\ UNCHANGED <<variant, alive, JOBS, timer, fp, pipe, inp, out, pend, streams, started>>

\* In part_000 the timer is armed after the handlers are attached.
ArmLate(j) == [timer EXCEPT ![j] = IF variant = "root" THEN "armed" ELSE @]

\* The downloader exits 0 and spawn('ffmpeg') starts the process: the
\* handlers are attached and { jobId } is sent.  ffmpeg ends at once when
\* its input is no longer there.
SpawnOk(j) ==
  /\ alive
  /\ stage[j] = "fetched"
  /\ stage' = [stage EXCEPT ![j] = "running"]
  /\ fp' = [fp EXCEPT ![j] = IF inp[j] THEN "probing" ELSE "failed"]
  /\ pipe' = [pipe EXCEPT ![j] = "open"]
  /\ timer' = ArmLate(j)
  /\ resp' = [resp EXCEPT ![j] = "jobId"]
  /\ UNCHANGED <<variant, alive, JOBS, inp, out, pend, streams, started>>

\* spawn cannot start the executable (ENOENT, EACCES, EAGAIN): it returns a
\* child and emits 'error' on the next tick.  The handler has sent
\* { jobId } by then.  src/server.js has no 'error' listener, so the event
\* throws; part_000's listener calls res.status(500).json on the response
\* already sent, which throws.  Either way the process dies.
SpawnErrorEvent(j) ==
  /\ alive
  /\ stage[j] = "fetched"
  /\ stage' = [stage EXCEPT ![j] = "spawnError"]
  /\ timer' = ArmLate(j)
  /\ resp' = [resp EXCEPT ![j] = "jobId"]
  /\ alive' = FALSE
  /\ UNCHANGED <<variant, JOBS, fp, pipe, inp, out, pend, streams, started>>

\* spawn throws (any other errno): the catch block answers 500.
SpawnThrow(j) ==
  /\ alive
  /\ stage[j] = "fetched"
  /\ stage' = [stage EXCEPT ![j] = "spawnThrew"]
  /\ resp' = [resp EXCEPT ![j] = "500"]
  /\ UNCHANGED <<variant, alive, JOBS, timer, fp, pipe, inp, out, pend, streams, started>>

----------------------------------------------------------------------------
\* The ffmpeg process.

FfmpegCreateOutput(j) ==
  /\ alive
  /\ fp[j] = "probing"
  /\ fp' = [fp EXCEPT ![j] = "writing"]
  /\ out' = [out EXCEPT ![j] = "partial"]
  /\ UNCHANGED <<variant, alive, JOBS, timer, stage, resp, pipe, inp, pend, streams, started>>

\* ffmpeg finishes the output; a file unlinked meanwhile stays unlinked.
FfmpegComplete(j) ==
  /\ alive
  /\ fp[j] = "writing"
  /\ fp' = [fp EXCEPT ![j] = "ok"]
  /\ out' = [out EXCEPT ![j] = IF @ = "partial" THEN "complete" ELSE @]
  /\ UNCHANGED <<variant, alive, JOBS, timer, stage, resp, pipe, inp, pend, streams, started>>

\* ffmpeg crashes or fails, leaving what it wrote.
FfmpegFail(j) ==
  /\ alive
  /\ fp[j] \in {"probing", "writing"}
  /\ fp' = [fp EXCEPT ![j] = "failed"]
  /\ UNCHANGED <<variant, alive, JOBS, timer, stage, resp, pipe, inp, out, pend, streams, started>>

\* ffmpeg.stdio[2].on('data'): one chunk of lines.  progress=end comes only
\* from a run that completed, and nothing follows it.  A recognised line
\* dereferences JOBS[jobId]; with the entry gone that throws.
ProgressData(j, chunk) ==
  /\ alive
  /\ pipe[j] = "open"
  /\ HasEnd(chunk) => fp[j] = "ok"
  /\ pipe' = [pipe EXCEPT ![j] = IF HasEnd(chunk) THEN "closed" ELSE @]
  /\ IF Dereferences(chunk) /\ JOBS[j] = NoJob
     THEN alive' = FALSE /\ UNCHANGED JOBS
     ELSE /\ JOBS' = [JOBS EXCEPT ![j] = IF @ = NoJob THEN @ ELSE ApplyLines(@, chunk, 1)]
          /\ UNCHANGED alive
  /\ UNCHANGED <<variant, timer, stage, resp, fp, inp, out, pend, streams, started>>

\* The pipe of a process that failed reaches end of file.
PipeClose(j) ==
  /\ alive
  /\ pipe[j] = "open"
  /\ fp[j] = "failed"
  /\ pipe' = [pipe EXCEPT ![j] = "closed"]
  /\ UNCHANGED <<variant, alive, JOBS, timer, stage, resp, fp, inp, out, pend, streams, started>>

ProcessExitKeepInput(j) ==
  /\ alive
  /\ stage[j] = "running"
  /\ fp[j] \in {"ok", "failed"}
  /\ stage' = [stage EXCEPT ![j] = "exited"]
  /\ IF JOBS[j] = NoJob
     THEN alive' = FALSE /\ UNCHANGED JOBS
     ELSE /\ JOBS' = [JOBS EXCEPT ![j] = [progress |-> Num(100), done |-> TRUE]]
          /\ UNCHANGED alive
  /\ UNCHANGED <<variant, timer, resp, fp, pipe, inp, out, pend, streams, started>>

\* ffmpeg.on('exit'); the pipe may still hold lines.
ProcessExit(j) ==
  /\ alive
  /\ stage[j] = "running"
  /\ fp[j] \in {"ok", "failed"}
  /\ stage' = [stage EXCEPT ![j] = "exited"]
  /\ IF JOBS[j] = NoJob
     THEN alive' = FALSE /\ UNCHANGED <<JOBS, pend>>
     ELSE /\ JOBS' = [JOBS EXCEPT ![j] = [progress |-> Num(100), done |-> TRUE]]
          /\ pend' = [pend EXCEPT ![j] = @ \cup {"input"}]
          /\ UNCHANGED alive
  /\ UNCHANGED <<variant, timer, resp, fp, pipe, inp, out, streams, started>>

----------------------------------------------------------------------------
ExpireAll(j) ==
  /\ alive
  /\ timer[j] = "armed"
  /\ timer' = [timer EXCEPT ![j] = "fired"]
  /\ out' = [out EXCEPT ![j] = "absent"]
  /\ inp' = [inp EXCEPT ![j] = FALSE]
  /\ JOBS' = [i \in JobIds |-> NoJob]
  /\ UNCHANGED <<variant, alive, stage, resp, fp, pipe, pend, streams, started>>

ExpireKeepInput(j) ==
  /\ alive
  /\ timer[j] = "armed"
  /\ timer' = [timer EXCEPT ![j] = "fired"]
  /\ out' = [out EXCEPT ![j] = "absent"]
  /\ JOBS' = [JOBS EXCEPT ![j] = NoJob]
  /\ UNCHANGED <<variant, alive, stage, resp, fp, pipe, inp, pend, streams, started>>

\* The setTimeout callback: unlinkSync both files if present, delete the entry.
Expire(j) ==
  /\ alive
  /\ timer[j] = "armed"
  /\ timer' = [timer EXCEPT ![j] = "fired"]
  /\ out' = [out EXCEPT ![j] = "absent"]
  /\ inp' = [inp EXCEPT ![j] = FALSE]
  /\ JOBS' = [JOBS EXCEPT ![j] = NoJob]
  /\ UNCHANGED <<variant, alive, stage, resp, fp, pipe, pend, streams, started>>

----------------------------------------------------------------------------
DownloadStatusEntryOnly(j) ==
  IF JOBS[j] = NoJob THEN "404" ELSE "200"

\* GET /api/convert/download: 404 unless the entry and its file are there.
DownloadStatus(j) ==
  IF JOBS[j] = NoJob \/ out[j] = "absent" THEN "404" ELSE "200"

\* GET /api/convert/download past the guard: a read stream is opened and piped.
DownloadStart(j) ==
  /\ alive
  /\ DownloadStatus(j) = "200"
  /\ started[j] < MaxStreams
  /\ streams' = [streams EXCEPT ![j] = @ + 1]
  /\ started' = [started EXCEPT ![j] = @ + 1]
  /\ UNCHANGED <<variant, alive, JOBS, timer, stage, resp, fp, pipe, inp, out, pend>>

StreamCloseKeepEntry(j) ==
  /\ alive
  /\ streams[j] > 0
  /\ streams' = [streams EXCEPT ![j] = @ - 1]
  /\ pend' = [pend EXCEPT ![j] = @ \cup {"output"}]
  /\ UNCHANGED <<variant, alive, JOBS, timer, stage, resp, fp, pipe, inp, out, started>>

StreamCloseDeref(j) ==
  /\ alive
  /\ streams[j] > 0
  /\ streams' = [streams EXCEPT ![j] = @ - 1]
  /\ IF JOBS[j] = NoJob
     THEN alive' = FALSE /\ UNCHANGED <<JOBS, pend>>
     ELSE /\ pend' = [pend EXCEPT ![j] = @ \cup {"output"}]
          /\ JOBS' = [JOBS EXCEPT ![j] = NoJob]
          /\ UNCHANGED alive
  /\ UNCHANGED <<variant, timer, stage, resp, fp, pipe, inp, out, started>>

\* stream.on('close'): fs.unlink(job.path) is asynchronous, delete JOBS[id] is not.
StreamClose(j) ==
  /\ alive
  /\ streams[j] > 0
  /\ streams' = [streams EXCEPT ![j] = @ - 1]
  /\ pend' = [pend EXCEPT ![j] = @ \cup {"output"}]
  /\ JOBS' = [JOBS EXCEPT ![j] = NoJob]
  /\ UNCHANGED <<variant, alive, timer, stage, resp, fp, pipe, inp, out, started>>

\* stream.on('error') before anything was written to the response (the open
\* or the first read failed): 500 is sent, the stream is destroyed and its
\* 'close' runs the handler above.
StreamOpenError(j) ==
  /\ alive
  /\ streams[j] > 0
  /\ streams' = [streams EXCEPT ![j] = @ - 1]
  /\ pend' = [pend EXCEPT ![j] = @ \cup {"output"}]
  /\ JOBS' = [JOBS EXCEPT ![j] = NoJob]
  /\ UNCHANGED <<variant, alive, timer, stage, resp, fp, pipe, inp, out, started>>

\* stream.on('error') after pipe wrote a chunk: the headers are out, so
\* res.status(500).json throws inside the event callback; 'close' never
\* gets to run.
StreamReadError(j) ==
  /\ alive
  /\ streams[j] > 0
  /\ alive' = FALSE
  /\ UNCHANGED <<variant, JOBS, timer, stage, resp, fp, pipe, inp, out, pend, streams, started>>

\* The thread pool carries out an fs.unlink; its callback ignores the result.
UnlinkDone(j, file) ==
  /\ alive
  /\ file \in pend[j]
  /\ pend' = [pend EXCEPT ![j] = @ \ {file}]
  /\ inp' = [inp EXCEPT ![j] = IF file = "input" THEN FALSE ELSE @]
  /\ out' = [out EXCEPT ![j] = IF file = "output" THEN "absent" ELSE @]
  /\ UNCHANGED <<variant, alive, JOBS, timer, stage, resp, fp, pipe, streams, started>>

\* GET /api/progress: reads the registry and the disk, changes nothing.
ProgressQuery(j) ==
  IF JOBS[j] = NoJob THEN [status |-> "404"]
  ELSE [status |-> "200", progress |-> JOBS[j].progress,
        ready |-> GE100(JOBS[j].progress) /\ JOBS[j].done /\ out[j] # "absent"]

----------------------------------------------------------------------------
Next ==
  \/ \E j \in JobIds, f \in InputFormats, t \in InputTypes : ConvertStart(j, f, t)
  \/ \E j \in JobIds : DownloaderWrite(j)
  \/ \E j \in JobIds : FetchFail(j)
  \/ \E j \in JobIds : SpawnOk(j)
  \/ \E j \in JobIds : SpawnErrorEvent(j)
  \/ \E j \in JobIds : SpawnThrow(j)
  \/ \E j \in JobIds : FfmpegCreateOutput(j)
  \/ \E j \in JobIds : FfmpegComplete(j)
  \/ \E j \in JobIds : FfmpegFail(j)
  \/ \E j \in JobIds, c \in Chunks : ProgressData(j, c)
  \/ \E j \in JobIds : PipeClose(j)
  \/ \E j \in JobIds : ProcessExit(j)
  \/ \E j \in JobIds : Expire(j)
  \/ \E j \in JobIds : DownloadStart(j)
  \/ \E j \in JobIds : StreamClose(j)
  \/ \E j \in JobIds : StreamOpenError(j)
  \/ \E j \in JobIds : StreamReadError(j)
  \/ \E j \in JobIds, file \in {"input", "output"} : UnlinkDone(j, file)

Spec == Init /\ [][Next]_vars

----------------------------------------------------------------------------
\* Claims.

\* A read stream of job j's output has closed.
Delivered(j) == started[j] > streams[j]

\* C1: in the state right after a job's expiry timer fires, the registry has
\* no entry for the job and neither its output file nor its intermediate
\* file exists, whatever stage the job was in.
Claim1_ExpiryReclaims ==
  [][\A j \in JobIds :
       (timer[j] = "armed" /\ timer'[j] = "fired")
         => (JOBS'[j] = NoJob /\ out'[j] = "absent" /\ ~inp'[j])]_vars

\* The timer fired in the middle of a transcode and took the entry and both
\* files that were there.
Claim1_Witness ==
  \E j \in JobIds :
    /\ timer[j] = "fired" /\ stage[j] = "running" /\ fp[j] = "writing"
    /\ started[j] = 0
    /\ JOBS[j] = NoJob /\ out[j] = "absent" /\ ~inp[j]

\* C2: an expiry timer is armed for every registry entry that is ever
\* created, so every entry is evicted by the timer at the latest.
Claim2_TimerArmedForEveryEntry ==
  \A j \in JobIds : JOBS[j] # NoJob => timer[j] = "armed"

\* C3: for every job id at most one delivery request ever starts streaming
\* the artifact.
Claim3_AtMostOneStream ==
  \A j \in JobIds : started[j] <= 1

\* C4, as claimed: once a delivery's read stream has closed, a delivery
\* request returns 404 and the registry entry and the output file are gone.
Claim4_DeliveredAllGone ==
  \A j \in JobIds :
    Delivered(j) => /\ (alive => DownloadStatus(j) = "404")
                    /\ JOBS[j] = NoJob
                    /\ out[j] = "absent"

\* C4, amended: once a delivery's read stream has closed, a delivery request
\* returns 404 and the registry entry is gone; the output file is gone or the
\* fs.unlink that removes it has been issued and is yet to be carried out.
Claim4_DeliveredSingleUse ==
  \A j \in JobIds :
    Delivered(j) => /\ (alive => DownloadStatus(j) = "404")
                    /\ JOBS[j] = NoJob
                    /\ (out[j] = "absent" \/ "output" \in pend[j])

\* A finished job was delivered once; its entry and its file are gone.
Claim4_Witness ==
  \E j \in JobIds :
    /\ Delivered(j) /\ streams[j] = 0 /\ fp[j] = "ok" /\ timer[j] # "fired"
    /\ JOBS[j] = NoJob /\ out[j] = "absent" /\ pend[j] = {}

\* C5: a progress query reports ready exactly when progress is 100, done is
\* true and the output file exists.
Claim5_Readiness ==
  \A j \in JobIds :
    (alive /\ JOBS[j] # NoJob) =>
      (ProgressQuery(j).ready <=>
         (JOBS[j].progress = Num(100) /\ JOBS[j].done /\ out[j] # "absent"))

\* A job is reported ready; another is done at 100 with no file and is not.
Claim5_Witness ==
  /\ alive
  /\ \E j \in JobIds : JOBS[j] # NoJob /\ ProgressQuery(j).ready
  /\ \E j \in JobIds : /\ JOBS[j] # NoJob /\ JOBS[j].done
                       /\ out[j] = "absent" /\ ~ProgressQuery(j).ready

\* C6: every job in the registry with done true has progress 100.
Claim6_DoneImplies100 ==
  \A j \in JobIds :
    (JOBS[j] # NoJob /\ JOBS[j].done) => JOBS[j].progress = Num(100)

\* The allow-lists as the claim gives them.
ClaimAllowList(type) ==
  IF type = "audio" THEN {"mp3", "aac", "m4a", "opus", "wav", "flac"}
  ELSE {"mp4", "mkv", "webm"}

\* C7: a conversion request whose alias-resolved format is not in the
\* allow-list of its type is answered 400 and changes neither the registry,
\* the files, the timers nor the processes.
Claim7_RejectedNoEffect ==
  [][\A j \in JobIds, f \in InputFormats, t \in {"audio", "video"} :
       (ConvertStart(j, f, t) /\ ResolveAlias(f) \notin ClaimAllowList(t))
         => /\ resp'[j] = "400"
            /\ UNCHANGED <<JOBS, timer, fp, pipe, inp, out, pend, streams, started>>]_vars

\* A request was rejected while another job was in the registry.
Claim7_Witness ==
  \E j, i \in JobIds :
    /\ stage[j] = "rejected" /\ resp[j] = "400" /\ JOBS[j] = NoJob
    /\ i # j /\ JOBS[i] # NoJob /\ inp[i]

\* C8: after the downloader fails, ffmpeg was never spawned, the request was
\* answered 500, neither temp file exists and the entry shows no progress.
Claim8_FetchFailureAborts ==
  \A j \in JobIds :
    stage[j] = "fetchFailed" =>
      /\ fp[j] = "none"
      /\ resp[j] = "500"
      /\ ~inp[j] /\ out[j] = "absent"
      /\ (JOBS[j] # NoJob => JOBS[j] = NewJob)

\* C9: when spawning ffmpeg fails the request is answered 500 and nothing
\* else, the server goes on running, and the job's entry is up for eviction.
Claim9_SpawnFailureSurfaced ==
  \A j \in JobIds :
    stage[j] \in {"spawnError", "spawnThrew"} =>
      /\ resp[j] = "500"
      /\ alive
      /\ (JOBS[j] # NoJob => timer[j] = "armed")

\* C10: a job whose ffmpeg failed is never reported ready and its file is
\* never streamed.
Claim10_FailedNeverReady ==
  \A j \in JobIds :
    (alive /\ fp[j] = "failed") =>
      /\ (JOBS[j] # NoJob => ~ProgressQuery(j).ready)
      /\ DownloadStatus(j) = "404"

\* C11: cleanup of a job whose entry and files are already gone (the expiry
\* timer firing after delivery evicted the job, the stream's close handler
\* and its unlink running after the timer removed the job) does not fail and
\* leaves the registry and the files as they were.
Claim11_IdempotentCleanup ==
  [][\A j \in JobIds :
       ( /\ JOBS[j] = NoJob /\ ~inp[j] /\ out[j] = "absent"
         /\ \/ Expire(j)
            \/ StreamClose(j)
            \/ UnlinkDone(j, "output")
            \/ UnlinkDone(j, "input") )
         => (alive' /\ UNCHANGED <<JOBS, inp, out>>)]_vars

\* A job was delivered and its timer fired, in either order; the later of
\* the two cleanups found nothing, and the server runs.
Claim11_Witness ==
  \E j \in JobIds :
    /\ alive /\ timer[j] = "fired" /\ Delivered(j) /\ streams[j] = 0
    /\ pend[j] = {} /\ JOBS[j] = NoJob /\ out[j] = "absent" /\ ~inp[j]

\* C12: every delivery stream that ends, by finishing or by failing with a
\* read error, evicts the entry and deletes the output file (issues its
\* unlink) when it ends.
Claim12_FailureCleansUp ==
  [][\A j \in JobIds :
       (StreamClose(j) \/ StreamOpenError(j) \/ StreamReadError(j))
         => /\ JOBS'[j] = NoJob
            /\ (out'[j] = "absent" \/ "output" \in pend'[j])]_vars

Claim14_NothingOutlivesExpiry ==
  \A j \in JobIds : timer[j] = "fired" => (~inp[j] /\ out[j] = "absent")

\* C15: whenever a recognised progress line or the exit event of a job's
\* ffmpeg is handled, the job's registry entry exists.
Claim15_CallbacksFindEntry ==
  [][\A j \in JobIds :
       ( \/ \E c \in Chunks : Dereferences(c) /\ ProgressData(j, c)
         \/ ProcessExit(j) )
         => JOBS[j] # NoJob]_vars

\* C16: whenever a delivery request starts streaming, the job has progress
\* 100 and done true.
Claim16_StreamsOnlyReady ==
  [][\A j \in JobIds :
       DownloadStart(j) => (JOBS[j].progress = Num(100) /\ JOBS[j].done)]_vars

\* C17: while a job is not done, every step leaves its progress an integer
\* in 0..100 that is no smaller than before.
Claim17_ProgressValid ==
  [][\A j \in JobIds :
       (JOBS[j] # NoJob /\ JOBS'[j] # NoJob /\ ~JOBS'[j].done)
         => /\ JOBS'[j].progress.k = "num"
            /\ JOBS'[j].progress.v \in 0..100
            /\ JOBS[j].progress.k = "num"
            /\ JOBS'[j].progress.v >= JOBS[j].progress.v]_vars

\* A step leaves the entry and the files of every job but a as they were.
OthersKept(a) ==
  \A b \in JobIds \ {a} :
    JOBS'[b] = JOBS[b] /\ inp'[b] = inp[b] /\ out'[b] = out[b]

Claim19_ExitDeletesInput ==
  [][\A j \in JobIds :
       /\ (ProcessExit(j) /\ JOBS[j] # NoJob)
            => /\ JOBS'[j] = [progress |-> Num(100), done |-> TRUE]
               /\ ~inp'[j]
       /\ (JOBS[j] # NoJob /\ JOBS[j].done /\ JOBS'[j] # NoJob)
            => JOBS'[j].done]_vars

\* C19, amended: the state after the exit event of a job in the registry
\* has progress 100 and done true, and the intermediate file is gone or its
\* fs.unlink has been issued and is yet to be carried out; done never goes
\* back to false while the entry exists.
Claim19_ExitCompletes ==
  [][\A j \in JobIds :
       /\ (ProcessExit(j) /\ JOBS[j] # NoJob)
            => /\ JOBS'[j] = [progress |-> Num(100), done |-> TRUE]
               /\ (~inp'[j] \/ "input" \in pend'[j])
       /\ (JOBS[j] # NoJob /\ JOBS[j].done /\ JOBS'[j] # NoJob)
            => JOBS'[j].done]_vars

\* A failed ffmpeg exited with the entry at half way: the entry is complete
\* and the intermediate file has been removed.
Claim19_Witness ==
  \E j \in JobIds :
    /\ alive /\ stage[j] = "exited" /\ fp[j] = "failed"
    /\ JOBS[j] = [progress |-> Num(100), done |-> TRUE]
    /\ ~inp[j] /\ pend[j] = {} /\ timer[j] # "fired"

\* The chunks of one line out_time_ms=v with v a non-negative integer.
ElapsedChunks ==
  {c \in Chunks : /\ Len(c) = 1 /\ IsOutTime(c[1])
                  /\ ParseInt(c[1].val).k = "num" /\ ParseInt(c[1].val).v >= 0}

\* min(100, round(v / 60000)) for each of them.
ClaimedRatio ==
  [c \in ElapsedChunks |->
     LET r == (ParseInt(c[1].val).v + 30000) \div 60000
     IN  Num(IF r < 100 THEN r ELSE 100)]

\* min(100, round(v / 60000 * 100)) for each of them.
ClaimedPercent ==
  [c \in ElapsedChunks |->
     LET r == (ParseInt(c[1].val).v + 300) \div 600
     IN  Num(IF r < 100 THEN r ELSE 100)]

\* C20, as claimed: a line out_time_ms=v, v a non-negative integer, stores
\* progress min(100, round(v / 60000)).
Claim20_ProgressRatio ==
  [][\A j \in JobIds, c \in ElapsedChunks :
       ( /\ JOBS[j] # NoJob /\ pipe[j] = "open"
         /\ UNCHANGED <<timer, stage, inp, out, pend, streams>>
         /\ ProgressData(j, c) )
         => JOBS'[j].progress = ClaimedRatio[c]]_vars

\* C20, amended: a line out_time_ms=v, v a non-negative integer, stores
\* progress min(100, round(v / 60000 * 100)), the percentage of 60000.
Claim20_ProgressPercent ==
  [][\A j \in JobIds, c \in ElapsedChunks :
       ( /\ JOBS[j] # NoJob /\ pipe[j] = "open"
         /\ UNCHANGED <<timer, stage, inp, out, pend, streams>>
         /\ ProgressData(j, c) )
         => JOBS'[j].progress = ClaimedPercent[c]]_vars

\* out_time_ms=30000 was handled: the entry stands at 50, not at 1.
Claim20_Witness ==
  \E j \in JobIds :
    /\ alive /\ pipe[j] = "open" /\ stage[j] = "running"
    /\ JOBS[j] = [progress |-> Num(50), done |-> FALSE]

====
